---- MODULE Spec2Model ----
(***************************************************************************)
(* HTTP CONNECT handshake client (flow.rs, flow/request.rs,                *)
(* flow/handshake_outcome.rs, lib.rs) and the byte-replay stream           *)
(* (prepend_io_stream.rs).  Bytes are one-character strings; byte          *)
(* sequences are TLA+ sequences of them.                                   *)
(***************************************************************************)
EXTENDS Integers, Sequences, FiniteSets, TLC

----------------------------------------------------------------------------
(* Bytes *)

CR == "\r"
LF == "\n"
SP == " "
COLON == ":"

Digits == {"0", "1", "2", "3", "4", "5", "6", "7", "8", "9"}

UpperLetters == {"A", "B", "C", "H", "K", "O", "P", "T", "X"}

LowerLetters ==
  {"a", "b", "c", "d", "e", "f", "g", "h", "i", "j", "k", "l", "m", "n", "o", "p", "q",
   "r", "s", "t", "u", "v", "w", "x", "y", "z"}

\* u8 -> decimal digit and back (b'0'..=b'9')
DigitVal(c) ==
  CASE c = "0" -> 0 [] c = "1" -> 1 [] c = "2" -> 2 [] c = "3" -> 3 [] c = "4" -> 4
    [] c = "5" -> 5 [] c = "6" -> 6 [] c = "7" -> 7 [] c = "8" -> 8 [] c = "9" -> 9

DigitChar(d) ==
  CASE d = 0 -> "0" [] d = 1 -> "1" [] d = 2 -> "2" [] d = 3 -> "3" [] d = 4 -> "4"
    [] d = 5 -> "5" [] d = 6 -> "6" [] d = 7 -> "7" [] d = 8 -> "8" [] d = 9 -> "9"

\* ASCII lower-casing done by HeaderName::from_bytes
LowerChar(c) ==
  CASE c = "A" -> "a" [] c = "B" -> "b" [] c = "C" -> "c" [] c = "H" -> "h"
    [] c = "K" -> "k" [] c = "O" -> "o" [] c = "P" -> "p" [] c = "T" -> "t"
    [] c = "X" -> "x" [] OTHER -> c

LowerSeq(s) == [i \in 1..Len(s) |-> LowerChar(s[i])]

\* httparse is_header_name_token: tchar
IsHeaderNameToken(c) == c \in Digits \cup UpperLetters \cup LowerLetters \cup {"-", ".", "_"}

\* variant: only the line ends stop a reason phrase or a header value
IsValueToken_lenient(c) == c \notin {CR, LF}

\* httparse is_header_value_token / reason-phrase bytes: HTAB, SP, VCHAR, obs-text
IsValueToken(c) == c \notin {CR, LF, "\f"}

Min(a, b) == IF a < b THEN a ELSE b

Drop(s, n) == SubSeq(s, n + 1, Len(s))

Take(s, n) == SubSeq(s, 1, n)

----------------------------------------------------------------------------
(* The head tokenizer: httparse::Response::parse on a byte slice, with the *)
(* 16-slot header array receive_response hands it.                          *)

MaxHeaders == 16

Partial == [st |-> "Partial"]

ParseError(k) == [st |-> "Error", kind |-> k]

\* the smallest index in from..Len(buf) whose byte satisfies Stop, or 0
FirstStop(buf, from, Stop(_)) ==
  LET S == {j \in from..Len(buf) : Stop(buf[j])}
  IN  IF S = {} THEN 0 ELSE CHOOSE j \in S : \A k \in S : j <= k

\* skip_empty_lines: leading CRLF / LF before the status line are dropped
RECURSIVE skip_empty_lines(_, _)
skip_empty_lines(buf, i) ==
  IF i > Len(buf) THEN Partial
  ELSE IF buf[i] = CR
    THEN IF i + 1 > Len(buf) THEN Partial
         ELSE IF buf[i + 1] = LF THEN skip_empty_lines(buf, i + 2)
         ELSE ParseError("NewLine")
  ELSE IF buf[i] = LF THEN skip_empty_lines(buf, i + 1)
  ELSE [st |-> "Ok", pos |-> i]

HttpOneDot == <<"H", "T", "T", "P", "/", "1", ".">>

\* parse_version: "HTTP/1.0" or "HTTP/1.1"; a proper prefix of it is Partial
parse_version(buf, i) ==
  LET avail == Len(buf) - i + 1
  IN  IF \E k \in 1..Min(7, avail) : buf[i + k - 1] # HttpOneDot[k]
        THEN ParseError("Version")
      ELSE IF avail < 8 THEN Partial
      ELSE IF buf[i + 7] \in {"0", "1"}
        THEN [st |-> "Ok", pos |-> i + 8, version |-> DigitVal(buf[i + 7])]
      ELSE ParseError("Version")

\* variant: the last digit is weighted like the second
parse_code_misweighted(buf, i) ==
  LET avail == Len(buf) - i + 1
  IN  IF \E k \in 1..Min(3, avail) : buf[i + k - 1] \notin Digits
        THEN ParseError("Status")
      ELSE IF avail < 3 THEN Partial
      ELSE [st |-> "Ok", pos |-> i + 3,
            code |-> 100 * DigitVal(buf[i]) + 10 * DigitVal(buf[i + 1])
                       + 10 * DigitVal(buf[i + 2])]

\* parse_code: exactly three decimal digits
parse_code(buf, i) ==
  LET avail == Len(buf) - i + 1
  IN  IF \E k \in 1..Min(3, avail) : buf[i + k - 1] \notin Digits
        THEN ParseError("Status")
      ELSE IF avail < 3 THEN Partial
      ELSE [st |-> "Ok", pos |-> i + 3,
            code |-> 100 * DigitVal(buf[i]) + 10 * DigitVal(buf[i + 1]) + DigitVal(buf[i + 2])]

IsLineStop(c) == ~IsValueToken(c)

\* the bytes of a line starting at i (reason phrase or header value), up to
\* its CRLF or LF
parse_line(buf, i, errkind) ==
  LET j == FirstStop(buf, i, IsLineStop)
  IN  IF j = 0 THEN Partial
      ELSE IF buf[j] = CR
        THEN IF j + 1 > Len(buf) THEN Partial
             ELSE IF buf[j + 1] = LF
               THEN [st |-> "Ok", pos |-> j + 2, text |-> SubSeq(buf, i, j - 1)]
             ELSE ParseError(errkind)
      ELSE IF buf[j] = LF
        THEN [st |-> "Ok", pos |-> j + 1, text |-> SubSeq(buf, i, j - 1)]
      ELSE ParseError(errkind)

\* what follows the status code: SP reason-phrase, or directly the line end
parse_after_code(buf, i) ==
  IF i > Len(buf) THEN Partial
  ELSE IF buf[i] = SP THEN parse_line(buf, i + 1, "Status")
  ELSE IF buf[i] = CR
    THEN IF i + 1 > Len(buf) THEN Partial
         ELSE IF buf[i + 1] = LF THEN [st |-> "Ok", pos |-> i + 2, text |-> <<>>]
         ELSE ParseError("Status")
  ELSE IF buf[i] = LF THEN [st |-> "Ok", pos |-> i + 1, text |-> <<>>]
  ELSE ParseError("Status")

IsNotNameToken(c) == ~IsHeaderNameToken(c)

IsNotBlank(c) == c \notin {SP, "\t"}

\* variant: header slots never run out
RECURSIVE parse_headers_iter_unbounded(_, _, _)
parse_headers_iter_unbounded(buf, i, hs) ==
  IF i > Len(buf) THEN Partial
  ELSE IF buf[i] = CR
    THEN IF i + 1 > Len(buf) THEN Partial
         ELSE IF buf[i + 1] = LF THEN [st |-> "Ok", pos |-> i + 2, headers |-> hs]
         ELSE ParseError("NewLine")
  ELSE IF buf[i] = LF THEN [st |-> "Ok", pos |-> i + 1, headers |-> hs]
  ELSE IF ~IsHeaderNameToken(buf[i]) THEN ParseError("HeaderName")
  ELSE
    LET j == FirstStop(buf, i + 1, IsNotNameToken)
    IN  IF j = 0 THEN Partial
        ELSE IF buf[j] # COLON THEN ParseError("HeaderName")
        ELSE
          LET k == FirstStop(buf, j + 1, IsNotBlank)
          IN  IF k = 0 THEN Partial
              ELSE
                LET v == parse_line(buf, k, "HeaderValue")
                IN  IF v.st # "Ok" THEN v
                    ELSE parse_headers_iter_unbounded(buf, v.pos,
                           Append(hs, [name |-> SubSeq(buf, i, j - 1), value |-> v.text]))

\* parse_headers_iter: header lines into at most MaxHeaders slots, until the
\* empty line; hs are the headers parsed so far
RECURSIVE parse_headers_iter(_, _, _)
parse_headers_iter(buf, i, hs) ==
  IF i > Len(buf) THEN Partial
  ELSE IF buf[i] = CR
    THEN IF i + 1 > Len(buf) THEN Partial
         ELSE IF buf[i + 1] = LF THEN [st |-> "Ok", pos |-> i + 2, headers |-> hs]
         ELSE ParseError("NewLine")
  ELSE IF buf[i] = LF THEN [st |-> "Ok", pos |-> i + 1, headers |-> hs]
  ELSE IF ~IsHeaderNameToken(buf[i]) THEN ParseError("HeaderName")
  ELSE IF Len(hs) = MaxHeaders THEN ParseError("TooManyHeaders")
  ELSE
    LET j == FirstStop(buf, i + 1, IsNotNameToken)
    IN  IF j = 0 THEN Partial
        ELSE IF buf[j] # COLON THEN ParseError("HeaderName")
        ELSE
          LET k == FirstStop(buf, j + 1, IsNotBlank)
          IN  IF k = 0 THEN Partial
              ELSE
                LET v == parse_line(buf, k, "HeaderValue")
                IN  IF v.st # "Ok" THEN v
                    ELSE parse_headers_iter(buf, v.pos,
                           Append(hs, [name |-> SubSeq(buf, i, j - 1), value |-> v.text]))

\* Response::parse: Partial, Error, or Complete with the count of bytes consumed
parse(buf) ==
  LET e == skip_empty_lines(buf, 1)
  IN  IF e.st # "Ok" THEN e
      ELSE
        LET v == parse_version(buf, e.pos)
        IN  IF v.st # "Ok" THEN v
            ELSE IF v.pos > Len(buf) THEN Partial
            ELSE IF buf[v.pos] # SP THEN ParseError("Version")
            ELSE
              LET c == parse_code(buf, v.pos + 1)
              IN  IF c.st # "Ok" THEN c
                  ELSE
                    LET r == parse_after_code(buf, c.pos)
                    IN  IF r.st # "Ok" THEN r
                        ELSE
                          LET h == parse_headers_iter(buf, r.pos, <<>>)
                          IN  IF h.st # "Ok" THEN h
                              ELSE [st |-> "Complete", consumed |-> h.pos - 1,
                                    code |-> c.code, reason |-> r.text,
                                    headers |-> h.headers]

----------------------------------------------------------------------------
(* flow/handshake_outcome.rs *)

\* HeaderMap::insert on a map kept as a sequence of entries: a new name is
\* appended, an existing name keeps its place and has its value replaced
HeaderMapInsert(map, name, value) ==
  IF \E i \in 1..Len(map) : map[i].name = name
    THEN [i \in 1..Len(map) |->
            IF map[i].name = name THEN [name |-> name, value |-> value] ELSE map[i]]
    ELSE Append(map, [name |-> name, value |-> value])

RECURSIVE InsertAll(_, _, _)
InsertAll(map, hs, i) ==
  IF i > Len(hs) THEN map
  ELSE CHOOSE r \in {InsertAll(m, hs, i + 1) :
                       m \in {HeaderMapInsert(map, LowerSeq(hs[i].name), hs[i].value)}} : TRUE

parts_from_complete_response(response) ==
  [status_code |-> response.code,
   reason_phrase |-> response.reason,
   headers |-> InsertAll(<<>>, response.headers, 1)]

HandshakeOutcome_new(response, data) ==
  [response_parts |-> parts_from_complete_response(response),
   data_after_handshake |-> data]

NoOutcome == [response_parts |-> "none", data_after_handshake |-> <<>>]

----------------------------------------------------------------------------
(* flow/request.rs *)

\* write!(writer, "{}", port) for a u16
RECURSIVE FormatPort(_)
FormatPort(n) ==
  IF n < 10 THEN <<DigitChar(n)>>
  ELSE Append(FormatPort(n \div 10), DigitChar(n % 10))

write_host_port(writer, h, p) == writer \o h \o <<COLON>> \o FormatPort(p)

\* variant: no space after the colon
RECURSIVE write_headers_tight(_, _, _)
write_headers_tight(writer, map, i) ==
  IF i > Len(map) THEN writer
  ELSE write_headers_tight(writer \o map[i].name \o <<COLON>> \o map[i].value \o <<CR, LF>>,
                           map, i + 1)

RECURSIVE write_headers(_, _, _)
write_headers(writer, map, i) ==
  IF i > Len(map) THEN writer
  ELSE write_headers(writer \o map[i].name \o <<COLON, SP>> \o map[i].value \o <<CR, LF>>,
                     map, i + 1)

ConnectWord == <<"C", "O", "N", "N", "E", "C", "T", " ">>

HttpVersionLine == <<" ", "H", "T", "T", "P", "/", "1", ".", "1", CR, LF>>

HostWord == <<"H", "o", "s", "t", COLON, " ">>

write(writer, h, p, hdrs) ==
  LET a == write_host_port(writer \o ConnectWord, h, p) \o HttpVersionLine
      b == write_host_port(a \o HostWord, h, p) \o <<CR, LF>>
      c == write_headers(b, hdrs, 1)
  IN  c \o <<CR, LF>>

----------------------------------------------------------------------------
(* Inputs: the requests and the sample responses the transport holds *)

\* the scratch buffer sizes go up to MaxBuf
MaxBuf == 30

\* a scratch buffer that takes the longest sample head in one read
LargeBuf == 120

\* a read into that buffer returns all the transport has left, or at most
\* this many bytes
MaxShortRead == 2

\* a zero-byte read is repeated at most this often
MaxZeroReads == 2

\* the longest tunnel read requested
MaxReadLen == 3

\* writes issued on the tunnel
MaxTunnelWrites == 1

\* poll_write calls are counted up to this number
MaxWriteCalls == 2

\* transport reads of receive_response are counted up to this number
MaxReadCalls == 2

Hdr(n, v) == [name |-> n, value |-> v]

Requests ==
  { [host |-> <<"1", "2", "7", ".", "0", ".", "0", ".", "1">>, port |-> 8080,
     headers |-> <<>>],
    [host |-> <<"a", ".", "b">>, port |-> 65535,
     headers |-> <<Hdr(<<"x", "-", "a">>, <<"1">>), Hdr(<<"k">>, <<"v", " ", "w">>)>>],
    [host |-> <<"h">>, port |-> 0,
     headers |-> <<Hdr(<<"p">>, <<"B", " ", "a", "=">>)>>] }

\* the text of a response head: status line, header lines, empty line
RECURSIVE HeaderLines(_, _)
HeaderLines(hs, i) ==
  IF i > Len(hs) THEN <<>>
  ELSE hs[i].name \o <<COLON, SP>> \o hs[i].value \o <<CR, LF>> \o HeaderLines(hs, i + 1)

HeadText(h) ==
  <<"H", "T", "T", "P", "/", "1", ".", "1", SP>>
    \o <<DigitChar(h.code \div 100), DigitChar((h.code \div 10) % 10), DigitChar(h.code % 10)>>
    \o <<SP>> \o h.reason \o <<CR, LF>> \o HeaderLines(h.headers, 1) \o <<CR, LF>>

Head200 == [code |-> 200, reason |-> <<"O", "K">>, headers |-> <<>>]

Head200X ==
  [code |-> 200, reason |-> <<"O", "K">>,
   headers |-> <<Hdr(<<"X", "-", "C">>, <<"a", " ", "b">>)>>]

Head407 == [code |-> 407, reason |-> <<>>, headers |-> <<Hdr(<<"k">>, <<"v">>)>>]

\* two header lines of the same name
HeadDup ==
  [code |-> 200, reason |-> <<"O">>,
   headers |-> <<Hdr(<<"k">>, <<"v">>), Hdr(<<"k">>, <<"x">>)>>]

\* a control byte in the reason phrase
HeadBadReason == [code |-> 200, reason |-> <<"O", "\f", "K">>, headers |-> <<>>]

\* a control byte in a header value
HeadBadValue ==
  [code |-> 200, reason |-> <<"O", "K">>, headers |-> <<Hdr(<<"k">>, <<"v", "\f">>)>>]

HeaderNames ==
  <<"a", "b", "c", "d", "e", "f", "g", "h", "i", "j", "k", "l", "m", "n", "o", "p", "q">>

\* n header lines of distinct names
ManyHeaders(n) == [i \in 1..n |-> Hdr(<<HeaderNames[i]>>, <<"v">>)]

\* as many header lines as receive_response provides slots for
HeadFull == [code |-> 200, reason |-> <<>>, headers |-> ManyHeaders(MaxHeaders)]

\* one header line more than there are slots
HeadOver == [code |-> 200, reason |-> <<>>, headers |-> ManyHeaders(MaxHeaders + 1)]

Hello == <<"h", "e", "l", "l", "o">>

\* a sample: the head, the tunnelled bytes after it, and the number of bytes
\* the transport delivers before it reports end-of-stream
Sample(h, t, n) == [head |-> h, tail |-> t, cut |-> n]

FullLen(h, t) == Len(HeadText(h)) + Len(t)

Samples ==
  { Sample(Head200, Hello, FullLen(Head200, Hello)),
    Sample(Head200, <<>>, FullLen(Head200, <<>>)),
    Sample(Head200X, <<"h", "i">>, FullLen(Head200X, <<"h", "i">>)),
    Sample(Head407, <<"e", CR, LF, "e">>, FullLen(Head407, <<"e", CR, LF, "e">>)),
    Sample(Head200X, <<>>, 21),
    Sample(Head200, <<>>, 0),
    Sample(HeadDup, <<"h">>, FullLen(HeadDup, <<"h">>)),
    Sample(HeadBadReason, <<>>, FullLen(HeadBadReason, <<>>)),
    Sample(HeadBadValue, <<"h">>, FullLen(HeadBadValue, <<"h">>)) }

SampleBytes(sm) == Take(HeadText(sm.head) \o sm.tail, sm.cut)

BufSizes == {1, 4, MaxBuf}

\* receive_response called on its own: also the long heads, and a scratch
\* buffer that holds them whole
LongSamples ==
  { Sample(HeadFull, <<"h">>, FullLen(HeadFull, <<"h">>)),
    Sample(HeadOver, <<"h">>, FullLen(HeadOver, <<"h">>)) }

RecvSamples == Samples \cup LongSamples

\* the scratch buffer sizes tried with a sample
RecvBufSizes(sm) ==
  IF sm.head = HeadOver THEN {1, 4, LargeBuf}
  ELSE IF sm.head = HeadFull THEN {1, 4}
  ELSE BufSizes

\* leftovers handed to from_vec directly
Prepends == { <<>>, <<"5", "6">>, <<"5", "6", "7", "8">> }

----------------------------------------------------------------------------
(* State *)

VARIABLES
  entry,            \* the public function called: "handshake_and_wrap",
                    \* "send_request", "receive_response" or "from_vec"
  pc,               \* where the call stands
  request,          \* host, port and headers given to the call
  read_buf_len,     \* length of the caller's scratch buffer read_buf
  sample,           \* what the transport's read side was built from
  reader,           \* transport read side: its bytes and read position
  writer,           \* transport write side: the bytes it has accepted
  write_buf,        \* send_request's assembled buffer
  written,          \* bytes of write_buf that write_all has handed over
  write_calls,      \* poll_write calls write_all has made on the transport
  carry_on_buf,     \* receive_response's accumulation buffer
  reads,            \* transport reads made by receive_response (up to MaxReadCalls)
  zero_reads,       \* of those, the reads that returned 0 bytes
  last_total,       \* bytes returned by receive_response's latest read
  short_read,       \* some read of receive_response did not fill read_buf
  outcome,          \* the HandshakeOutcome
  error,            \* the Err the call returned, or "none"
  prepended,     \* the leftover the PrependIoStream was constructed with
  stream,           \* the PrependIoStream
  last_op,          \* the latest call on the PrependIoStream
  delivered,        \* all bytes the PrependIoStream's reads have returned
  tunnel_writes,    \* writes, flushes and closes issued on the PrependIoStream
  inner_ctl,        \* flushes and closes the inner stream has received
  unwrapped         \* the result of into_inner

vars ==
  <<entry, pc, request, read_buf_len, sample, reader, writer, write_buf, written,
    write_calls, carry_on_buf, reads, zero_reads, last_total, short_read, outcome, error,
    prepended, stream, last_op, delivered, tunnel_writes, inner_ctl, unwrapped>>

send_vars == <<writer, write_buf, written, write_calls>>

recv_vars == <<carry_on_buf, reads, zero_reads, last_total, short_read, outcome>>

tunnel_vars ==
  <<prepended, stream, last_op, delivered, tunnel_writes, inner_ctl, unwrapped>>

input_vars == <<entry, request, read_buf_len, sample>>

NoStream == [variant |-> "None"]

NoOp == [op |-> "none"]

NoRequest == [host |-> <<>>, port |-> 0, headers |-> <<>>]

NoSample == Sample(Head200, <<>>, 0)

Remaining == Len(reader.data) - reader.pos

\* the byte counts a transport read into a buffer of len bytes can return:
\* 0 at end-of-stream or for an empty buffer, else any positive count that
\* fits the buffer and the bytes left (for the large buffer: a full read or
\* a read of at most MaxShortRead bytes)
ReadCounts(len) ==
  IF len = 0 \/ Remaining = 0 THEN {0}
  ELSE IF len > MaxBuf
    THEN {n \in 1..Min(len, Remaining) : n <= MaxShortRead \/ n = Min(len, Remaining)}
  ELSE 1..Min(len, Remaining)

ReadBytes(n) == SubSeq(reader.data, reader.pos + 1, reader.pos + n)

----------------------------------------------------------------------------
(* prepend_io_stream.rs *)

\* Cursor::new(vec).chain(stream)
from_cursor(vec, position) ==
  [variant |-> "Chain", vec |-> vec, position |-> position, done_first |-> FALSE]

plain == [variant |-> "Plain"]

None == [some |-> FALSE]

Some(x) == [some |-> TRUE, v |-> x]

\* variant: the leftover is not installed
from_vec_dropping(read_prepend) == plain

\* variant: an empty Vec is installed like any other
from_vec_keeping_empty(read_prepend) ==
  IF read_prepend.some THEN from_cursor(read_prepend.v, 0) ELSE plain

from_vec(read_prepend) ==
  LET normalised ==
        IF ~read_prepend.some THEN None
        ELSE IF read_prepend.v = <<>> THEN None
        ELSE read_prepend
  IN  IF normalised.some THEN from_cursor(normalised.v, 0) ELSE plain

pending_prepend_data(st) ==
  IF st.variant = "Chain" THEN Drop(st.vec, st.position) ELSE <<>>

\* variant: the cursor is handed back rewound
into_inner_rewound(st) ==
  IF st.variant = "Chain"
    THEN [stream |-> reader, leftover |-> Some([vec |-> st.vec, position |-> 0])]
    ELSE [stream |-> reader, leftover |-> None]

into_inner(st) ==
  IF st.variant = "Chain"
    THEN [stream |-> reader, leftover |-> Some([vec |-> st.vec, position |-> st.position])]
    ELSE [stream |-> reader, leftover |-> None]

----------------------------------------------------------------------------
(* flow.rs: send_request *)

BumpCalls(n) == Min(n + 1, MaxWriteCalls)

AfterSend == IF entry = "send_request" THEN "returned" ELSE "first_read"

\* variant: the result of write_all is dropped, the handshake goes on
WriteAllStep_unchecked(buf, off) ==
  /\ write_calls' = BumpCalls(write_calls)
  /\ \/ \E n \in 1..(Len(buf) - off) :
          /\ writer' = writer \o SubSeq(buf, off + 1, off + n)
          /\ written' = off + n
          /\ pc' = IF off + n = Len(buf) THEN AfterSend ELSE "write_all"
          /\ error' = error
     \/ \E e \in {"Io", "WriteZero"} :
          /\ writer' = writer
          /\ written' = off
          /\ pc' = AfterSend
          /\ error' = error

\* variant: one write call, whatever part of the buffer it accepts
WriteAllStep_once(buf, off) ==
  /\ write_calls' = BumpCalls(write_calls)
  /\ \/ \E n \in 1..(Len(buf) - off) :
          /\ writer' = writer \o SubSeq(buf, off + 1, off + n)
          /\ written' = off + n
          /\ pc' = AfterSend
          /\ error' = error
     \/ \E e \in {"Io", "WriteZero"} :
          /\ writer' = writer
          /\ written' = off
          /\ pc' = "failed"
          /\ error' = e

\* one poll_write of write_all on buf[off..]: the transport accepts some of
\* the bytes, or the write fails (an io error, or 0 bytes accepted: WriteZero)
WriteAllStep(buf, off) ==
  /\ write_calls' = BumpCalls(write_calls)
  /\ \/ \E n \in 1..(Len(buf) - off) :
          /\ writer' = writer \o SubSeq(buf, off + 1, off + n)
          /\ written' = off + n
          /\ pc' = IF off + n = Len(buf) THEN AfterSend ELSE "write_all"
          /\ error' = error
     \/ \E e \in {"Io", "WriteZero"} :
          /\ writer' = writer
          /\ written' = off
          /\ pc' = "failed"
          /\ error' = e

\* send_request up to its first suspension: the request is assembled in a
\* Vec, then write_all starts handing it to the transport
send_request ==
  /\ pc = "call"
  /\ entry \in {"handshake_and_wrap", "send_request"}
  /\ LET buf == write(<<>>, request.host, request.port, request.headers)
     IN  /\ write_buf' = buf
         /\ WriteAllStep(buf, 0)
  /\ UNCHANGED <<input_vars, reader, recv_vars, tunnel_vars>>

\* write_all resumed: the rest of the buffer
write_all ==
  /\ pc = "write_all"
  /\ WriteAllStep(write_buf, written)
  /\ UNCHANGED <<input_vars, reader, write_buf, recv_vars, tunnel_vars>>

----------------------------------------------------------------------------
(* flow.rs: receive_response, and lib.rs: handshake_and_wrap *)

BumpReads(n) == Min(n + 1, MaxReadCalls)

\* variant: the whole slice is kept, head included
first_tail_whole(buf, consumed) == buf

\* Vec::from(&buf[consumed..]) on the scratch slice of the first read
first_tail(buf, consumed) == Drop(buf, consumed)

\* variant: the tail starts one byte early, inside the head
carry_tail_early(buf, consumed) == Drop(buf, consumed - 1)

\* variant: the tail starts one byte late
carry_tail_late(buf, consumed) == Drop(buf, Min(Len(buf), consumed + 1))

\* Vec::from(&carry_on_buf[consumed..])
carry_tail(buf, consumed) == Drop(buf, consumed)

\* the tokenizer's verdict on buf, after a read that returned n bytes; first
\* tells the first read from the carry-on loop
Settle(buf, n, first) ==
  \E status \in {parse(buf)} :
      /\ reads' = BumpReads(reads)
      /\ zero_reads' = IF n = 0 THEN zero_reads + 1 ELSE zero_reads
      /\ last_total' = n
      /\ short_read' = (short_read \/ n < read_buf_len)
      /\ reader' = [reader EXCEPT !.pos = reader.pos + n]
      /\ CASE status.st = "Error" ->
                /\ pc' = "failed"
                /\ error' = "InvalidData"
                /\ carry_on_buf' = IF first THEN carry_on_buf ELSE buf
                /\ UNCHANGED <<outcome, prepended, stream>>
           [] status.st = "Partial" ->
                /\ pc' = "carry_on"
                /\ carry_on_buf' = buf
                /\ UNCHANGED <<error, outcome, prepended, stream>>
           [] status.st = "Complete" ->
                LET data == IF first THEN first_tail(buf, status.consumed)
                                     ELSE carry_tail(buf, status.consumed)
                IN  /\ outcome' = HandshakeOutcome_new(status, data)
                    /\ IF entry = "handshake_and_wrap"
                         THEN /\ prepended' = Some(data)
                              /\ stream' = from_vec(Some(data))
                              /\ pc' = "tunnel"
                         ELSE /\ UNCHANGED <<prepended, stream>>
                              /\ pc' = "returned"
                    /\ carry_on_buf' = IF first THEN carry_on_buf ELSE buf
                    /\ error' = error

\* the first read, tokenized in place in read_buf
first_read ==
  /\ pc = "first_read"
  /\ \E n \in ReadCounts(read_buf_len) : Settle(ReadBytes(n), n, TRUE)
  /\ UNCHANGED <<input_vars, send_vars, last_op, delivered, tunnel_writes, inner_ctl,
                 unwrapped>>

\* variant: the buffer is replaced by the newly read bytes
extend_replacing(acc, buf) == buf

\* carry_on_buf.extend_from_slice(buf)
extend_from_slice(acc, buf) == acc \o buf

\* one iteration of the carry-on loop
carry_on ==
  /\ pc = "carry_on"
  /\ \E n \in ReadCounts(read_buf_len) :
       /\ n = 0 => zero_reads < MaxZeroReads
       /\ Settle(extend_from_slice(carry_on_buf, ReadBytes(n)), n, FALSE)
  /\ UNCHANGED <<input_vars, send_vars, last_op, delivered, tunnel_writes, inner_ctl,
                 unwrapped>>

\* stream.read(read_buf).await? when the transport read fails
read_error ==
  /\ pc \in {"first_read", "carry_on"}
  /\ reads' = BumpReads(reads)
  /\ pc' = "failed"
  /\ error' = "Io"
  /\ UNCHANGED <<input_vars, send_vars, reader, carry_on_buf, zero_reads, last_total,
                 short_read, outcome, tunnel_vars>>

----------------------------------------------------------------------------
(* prepend_io_stream.rs: the calls on a PrependIoStream *)

Op(kind, req, ret, inner, data) ==
  [op |-> kind, req |-> req, ret |-> ret, inner |-> inner, data |-> data,
   pending_before |-> Len(pending_prepend_data(stream))]

\* PrependIoStream::from_vec called directly on a transport
from_vec_call ==
  /\ pc = "call"
  /\ entry = "from_vec"
  /\ \E rp \in {None} \cup {Some(p) : p \in Prepends} :
       /\ prepended' = rp
       /\ stream' = from_vec(rp)
  /\ pc' = "tunnel"
  /\ UNCHANGED <<input_vars, send_vars, reader, recv_vars, error, last_op, delivered,
                 tunnel_writes, inner_ctl, unwrapped>>

\* variant: at most one byte per call
cursor_poll_read_single(len, st) == Min(Min(len, 1), Len(st.vec) - st.position)

\* Cursor<Vec<u8>>::poll_read: the count of bytes the cursor hands out
cursor_poll_read(len, st) == Min(len, Len(st.vec) - st.position)

\* variant: the chain never moves on to the second reader
first_is_done_never(n, len) == FALSE

\* variant: the first reader is done as soon as it returns a short count
first_is_done_short(n, len) == n < len

\* variant: the emptiness test is inverted
first_is_done_inverted(n, len) == n = 0 /\ len = 0

\* Chain::poll_read: the first reader is done when it returns 0 bytes for a
\* non-empty buffer
first_is_done(n, len) == n = 0 /\ len # 0

\* the read forwarded to the inner stream
InnerRead(len, st) ==
  \E n \in ReadCounts(len) :
    /\ reader' = [reader EXCEPT !.pos = reader.pos + n]
    /\ delivered' = delivered \o ReadBytes(n)
    /\ last_op' = Op("read", len, n, TRUE, ReadBytes(n))
    /\ stream' = st

\* poll_read with a caller buffer of len bytes.  Plain forwards to the inner
\* stream.  Chain reads its Cursor first; when that returns 0 for a non-empty
\* buffer it sets done_first and reads the inner stream in the same call.
poll_read(len) ==
  /\ pc = "tunnel"
  /\ IF stream.variant = "Plain" THEN InnerRead(len, stream)
     ELSE IF stream.done_first THEN InnerRead(len, stream)
     ELSE LET n == cursor_poll_read(len, stream)
          IN  IF first_is_done(n, len)
                THEN InnerRead(len, [stream EXCEPT !.done_first = TRUE])
                ELSE /\ stream' = [stream EXCEPT !.position = stream.position + n]
                     /\ delivered' =
                          delivered \o SubSeq(stream.vec, stream.position + 1, stream.position + n)
                     /\ last_op' =
                          Op("read", len, n, FALSE,
                             SubSeq(stream.vec, stream.position + 1, stream.position + n))
                     /\ reader' = reader
  /\ UNCHANGED <<input_vars, pc, send_vars, recv_vars, error, prepended, tunnel_writes,
                 inner_ctl, unwrapped>>

TunnelPayload == <<"p", "q">>

\* variant: the chain is taken apart to reach the inner stream
get_mut_taking(st) == IF st.variant = "Chain" THEN plain ELSE st

\* the PrependIoStream after chain.get_mut() lent out its inner stream
get_mut(st) == st

\* poll_write: forwarded to the inner stream in both variants
poll_write ==
  /\ pc = "tunnel"
  /\ tunnel_writes < MaxTunnelWrites
  /\ tunnel_writes' = tunnel_writes + 1
  /\ \E n \in 1..Len(TunnelPayload) :
       /\ writer' = writer \o Take(TunnelPayload, n)
       /\ last_op' = Op("write", Len(TunnelPayload), n, FALSE, <<>>)
  /\ stream' = get_mut(stream)
  /\ UNCHANGED <<input_vars, pc, reader, write_buf, written, write_calls, recv_vars, error,
                 prepended, delivered, inner_ctl, unwrapped>>

\* poll_flush: forwarded to the inner stream in both variants
poll_flush ==
  /\ pc = "tunnel"
  /\ tunnel_writes < MaxTunnelWrites
  /\ tunnel_writes' = tunnel_writes + 1
  /\ inner_ctl' = [inner_ctl EXCEPT !.flushes = @ + 1]
  /\ last_op' = Op("flush", 0, 0, FALSE, <<>>)
  /\ stream' = get_mut(stream)
  /\ UNCHANGED <<input_vars, pc, reader, send_vars, recv_vars, error, prepended, delivered,
                 unwrapped>>

\* poll_close: forwarded to the inner stream in both variants
poll_close ==
  /\ pc = "tunnel"
  /\ tunnel_writes < MaxTunnelWrites
  /\ tunnel_writes' = tunnel_writes + 1
  /\ inner_ctl' = [inner_ctl EXCEPT !.closes = @ + 1]
  /\ last_op' = Op("close", 0, 0, FALSE, <<>>)
  /\ stream' = get_mut(stream)
  /\ UNCHANGED <<input_vars, pc, reader, send_vars, recv_vars, error, prepended, delivered,
                 unwrapped>>

into_inner_call ==
  /\ pc = "tunnel"
  /\ unwrapped' = into_inner(stream)
  /\ pc' = "unwrapped"
  /\ last_op' = Op("into_inner", 0, 0, FALSE, <<>>)
  /\ UNCHANGED <<input_vars, send_vars, reader, recv_vars, error, prepended, stream,
                 delivered, tunnel_writes, inner_ctl>>

----------------------------------------------------------------------------
(* Specifications: one per public entry point *)

InnerDatas == { <<>>, <<"1", "2", "3", "4">> }

InitCommon ==
  /\ writer = <<>>
  /\ write_buf = <<>>
  /\ written = 0
  /\ write_calls = 0
  /\ carry_on_buf = <<>>
  /\ reads = 0
  /\ zero_reads = 0
  /\ last_total = 0
  /\ short_read = FALSE
  /\ outcome = NoOutcome
  /\ error = "none"
  /\ prepended = None
  /\ stream = NoStream
  /\ last_op = NoOp
  /\ delivered = <<>>
  /\ tunnel_writes = 0
  /\ inner_ctl = [flushes |-> 0, closes |-> 0]
  /\ unwrapped = None

\* handshake_and_wrap(stream, host, port, request_headers, read_buf)
Init ==
  /\ entry = "handshake_and_wrap"
  /\ pc = "call"
  /\ request \in {r \in Requests : r.port = 8080}
  /\ read_buf_len \in BufSizes
  /\ sample \in Samples
  /\ reader = [data |-> SampleBytes(sample), pos |-> 0]
  /\ InitCommon

Next ==
  \/ send_request
  \/ write_all
  \/ first_read
  \/ carry_on
  \/ read_error
  \/ \E len \in 0..MaxReadLen : poll_read(len)
  \/ poll_write
  \/ poll_flush
  \/ poll_close
  \/ into_inner_call

Spec == Init /\ [][Next]_vars

\* send_request(stream, host, port, headers)
InitSend ==
  /\ entry = "send_request"
  /\ pc = "call"
  /\ request \in Requests
  /\ read_buf_len = 0
  /\ sample = NoSample
  /\ reader = [data |-> <<>>, pos |-> 0]
  /\ InitCommon

NextSend == send_request \/ write_all

SpecSend == InitSend /\ [][NextSend]_vars

\* receive_response(stream, read_buf)
InitRecv ==
  /\ entry = "receive_response"
  /\ pc = "first_read"
  /\ request = NoRequest
  /\ sample \in RecvSamples
  /\ read_buf_len \in RecvBufSizes(sample)
  /\ reader = [data |-> SampleBytes(sample), pos |-> 0]
  /\ InitCommon

NextRecv == first_read \/ carry_on \/ read_error

SpecRecv == InitRecv /\ [][NextRecv]_vars

\* PrependIoStream::from_vec(stream, prepended), then calls on the stream
InitStream ==
  /\ entry = "from_vec"
  /\ pc = "call"
  /\ request = NoRequest
  /\ read_buf_len = 0
  /\ sample = NoSample
  /\ reader \in {[data |-> d, pos |-> 0] : d \in InnerDatas}
  /\ InitCommon

NextStream ==
  \/ from_vec_call
  \/ \E len \in 0..MaxReadLen : poll_read(len)
  \/ poll_write
  \/ poll_flush
  \/ poll_close
  \/ into_inner_call

SpecStream == InitStream /\ [][NextStream]_vars

TypeOK ==
  /\ pc \in {"call", "write_all", "first_read", "carry_on", "returned", "failed",
             "tunnel", "unwrapped"}
  /\ reader.pos \in 0..Len(reader.data)
  /\ written \in 0..Len(write_buf)
  /\ stream.variant \in {"None", "Chain", "Plain"}

----------------------------------------------------------------------------
(* Properties *)

\* length of the response head the transport's bytes were built from
HeadLen == Len(HeadText(sample.head))

\* the transport's bytes that follow the response head
BytesAfterHead == Drop(reader.data, HeadLen)

\* status, reason and headers as the sample's head states them (header
\* names compare case-insensitively, so in lower case)
HeadParts ==
  [status_code |-> sample.head.code,
   reason_phrase |-> sample.head.reason,
   headers |-> [i \in 1..Len(sample.head.headers) |->
                  Hdr(LowerSeq(sample.head.headers[i].name), sample.head.headers[i].value)]]

\* offset (1-based) of the first byte of the header line that finds every
\* header slot taken; 0 when the head has no such line
TooManyAt ==
  IF Len(sample.head.headers) > MaxHeaders
    THEN Len(HeadText([sample.head EXCEPT !.headers = Take(@, MaxHeaders)])) - 1
    ELSE 0

\* the head holds no byte the tokenizer rejects
HeadIsClean ==
  /\ TooManyAt = 0
  /\ \A i \in 1..Len(sample.head.reason) : sample.head.reason[i] # "\f"
  /\ \A i \in 1..Len(sample.head.headers) :
       \A j \in 1..Len(sample.head.headers[i].value) :
         sample.head.headers[i].value[j] # "\f"

\* a read on the PrependIoStream reported end-of-stream
EofSeen == last_op.op = "read" /\ last_op.req > 0 /\ last_op.ret = 0

Wrapped == pc \in {"tunnel", "unwrapped"}

Pending == pending_prepend_data(stream)

OrigLeftover == IF prepended.some THEN prepended.v ELSE <<>>

\* C1: after handshake_and_wrap succeeds, the bytes the tunnel's reads have
\* returned, the leftover still pending and the bytes still in the transport
\* make up exactly the transport's bytes after the response head; so once a
\* read reports end-of-stream the tunnel has yielded exactly those bytes, for
\* every scratch-buffer size and every split of the response across reads.
C1_TunnelYieldsBytesAfterHead ==
  Wrapped =>
    /\ delivered \o Pending \o Drop(reader.data, reader.pos) = BytesAfterHead
    /\ EofSeen => delivered = BytesAfterHead

C1_Witness ==
  /\ pc = "tunnel"
  /\ EofSeen
  /\ delivered = Hello
  /\ read_buf_len = 4
  /\ reads > 1

\* C2: a zero-byte read while the tokenizer reports the bytes incomplete
\* makes receive_response return an UnexpectedEof error (no further read).
C2_ZeroReadIsUnexpectedEof ==
  zero_reads > 0 => (pc = "failed" /\ error = "UnexpectedEof")

\* what receive_response returns when the transport hands over all its bytes
\* in the first read
SingleReadOutcome ==
  LET status == parse(reader.data)
  IN  HandshakeOutcome_new(status, first_tail(reader.data, status.consumed))

\* C3 as stated: whatever the chunk boundaries, receive_response returns the
\* HandshakeOutcome of the single-read case, data_after_handshake included.
C3_OutcomeIndependentOfChunks ==
  pc = "returned" => outcome = SingleReadOutcome

\* C3 amended: whatever the chunk boundaries, status, reason and headers are
\* those of the single-read case, and data_after_handshake followed by the
\* bytes still unread in the transport is the single-read case's
\* data_after_handshake.
C3_PartsIndependentOfChunks ==
  pc = "returned" =>
    /\ outcome.response_parts = SingleReadOutcome.response_parts
    /\ outcome.data_after_handshake \o Drop(reader.data, reader.pos)
         = SingleReadOutcome.data_after_handshake

C3_Witness ==
  /\ pc = "returned"
  /\ reads > 1
  /\ outcome.data_after_handshake # <<>>
  /\ Len(outcome.data_after_handshake) < Len(SingleReadOutcome.data_after_handshake)

\* C4: when the first read delivers the whole (well-formed) response head and
\* zero or more trailing bytes, receive_response returns after that one read, with the
\* head's status, reason and headers and with data_after_handshake equal to
\* the trailing bytes of that read.  (Broken for a head that repeats a header
\* name, see C15.)
C4_FirstReadRoundTrip ==
  [][(pc = "first_read" /\ HeadIsClean /\ reader'.pos >= HeadLen) =>
       /\ pc' = "returned"
       /\ reads' = 1
       /\ outcome'.response_parts = HeadParts
       /\ outcome'.data_after_handshake = SubSeq(reader.data, HeadLen + 1, reader'.pos)]_vars

C4_Witness ==
  /\ pc = "returned"
  /\ reads = 1
  /\ outcome.response_parts.status_code = 407
  /\ Len(outcome.response_parts.headers) = 1
  /\ Len(outcome.data_after_handshake) = 2

\* the decimal text of the ports used
PortText(p) ==
  CASE p = 8080 -> <<"8", "0", "8", "0">>
    [] p = 65535 -> <<"6", "5", "5", "3", "5">>
    [] p = 0 -> <<"0">>

HostPortText(r) == r.host \o <<":">> \o PortText(r.port)

\* CONNECT <host>:<port> HTTP/1.1 CRLF Host: <host>:<port> CRLF
\* (<name>: <value> CRLF)* CRLF
RequestTemplate(r) ==
  <<"C", "O", "N", "N", "E", "C", "T", " ">> \o HostPortText(r)
    \o <<" ", "H", "T", "T", "P", "/", "1", ".", "1", "\r", "\n">>
    \o <<"H", "o", "s", "t", ":", " ">> \o HostPortText(r) \o <<"\r", "\n">>
    \o HeaderLines(r.headers, 1) \o <<"\r", "\n">>

\* C5: send_request delivers to the transport exactly the bytes of the
\* request template, headers in collection order, and no other bytes: what
\* the transport has accepted is always a prefix of the template and is the
\* whole template when send_request returns.
C5_RequestMatchesTemplate ==
  /\ writer = Take(RequestTemplate(request), Len(writer))
  /\ pc = "returned" => writer = RequestTemplate(request)

C5_Witness ==
  /\ pc = "returned"
  /\ Len(request.headers) = 2
  /\ write_calls > 1

\* C6: a read while leftover bytes remain returns min(requested, remaining)
\* bytes, which are the next bytes of the leftover, advances the cursor by
\* that count and does not invoke the inner stream's read.
C6_ReadServedFromLeftover ==
  (last_op.op = "read" /\ last_op.pending_before > 0) =>
    /\ last_op.ret = Min(last_op.req, last_op.pending_before)
    /\ ~last_op.inner
    /\ Len(Pending) = last_op.pending_before - last_op.ret
    /\ last_op.data = SubSeq(OrigLeftover, Len(OrigLeftover) - last_op.pending_before + 1,
                             Len(OrigLeftover) - Len(Pending))

C6_Witness ==
  /\ last_op.op = "read"
  /\ last_op.pending_before = 2
  /\ last_op.req = 3
  /\ last_op.ret = 2

\* C7: the inner stream's read is never invoked while undelivered leftover
\* bytes remain, and what the reads have returned is the delivered part of
\* the leftover followed by the bytes taken from the inner stream, in order.
C7_LeftoverThenInner ==
  Wrapped =>
    /\ (last_op.op = "read" /\ last_op.inner) => last_op.pending_before = 0
    /\ reader.pos > 0 => Pending = <<>>
    /\ delivered = Take(OrigLeftover, Len(OrigLeftover) - Len(Pending))
                     \o Take(reader.data, reader.pos)

C7_Witness ==
  /\ pc = "tunnel"
  /\ EofSeen
  /\ delivered = <<"5", "6", "7", "8", "1", "2", "3", "4">>

\* C8 as stated: once the leftover is drained, every later read is forwarded
\* to the inner stream.
C8_EveryReadForwarded ==
  (last_op.op = "read" /\ last_op.pending_before = 0) => last_op.inner

Drained == stream.variant # "None" /\ Pending = <<>>

C8_NonEmptyReadForwarded ==
  (last_op.op = "read" /\ last_op.pending_before = 0 /\ last_op.req > 0) =>
    /\ last_op.inner
    /\ last_op.data = SubSeq(reader.data, reader.pos - last_op.ret + 1, reader.pos)

\* C8 amended: once the leftover is drained it stays drained, and every later
\* read with a non-empty caller buffer is forwarded to the inner stream and
\* returns what the inner stream returns (a read with an empty buffer may be
\* answered with 0 without reaching the inner stream).
C8_DrainedIsPermanent ==
  /\ []C8_NonEmptyReadForwarded
  /\ [][Drained => Drained']_vars

C8_Witness ==
  /\ prepended.some
  /\ prepended.v # <<>>
  /\ tunnel_writes > 0
  /\ last_op.op = "read"
  /\ last_op.pending_before = 0
  /\ last_op.ret > 0

\* C9: into_inner after the non-empty leftover has been drained returns an
\* absent leftover.
C9_DrainedGivesNone ==
  (pc = "unwrapped" /\ OrigLeftover # <<>> /\ Pending = <<>>) => unwrapped.leftover = None

\* C10: into_inner before the leftover is exhausted returns the inner stream
\* and the original leftover with the cursor at the first undelivered byte:
\* the delivered bytes followed by the returned remainder are the original
\* leftover.
C10_RemainderReturned ==
  (pc = "unwrapped" /\ Pending # <<>>) =>
    /\ unwrapped.stream = reader
    /\ unwrapped.leftover.some
    /\ unwrapped.leftover.v.vec = OrigLeftover
    /\ delivered \o Drop(unwrapped.leftover.v.vec, unwrapped.leftover.v.position)
         = OrigLeftover

C10_Witness ==
  /\ pc = "unwrapped"
  /\ Len(delivered) = 2
  /\ Len(Pending) = 2

\* offset (1-based) of the first byte of the transport's data that the
\* tokenizer rejects; 0 when there is none
BadAt ==
  LET bad == {i \in 1..Len(reader.data) : reader.data[i] = "\f" \/ i = TooManyAt}
  IN  IF bad = {} THEN 0 ELSE CHOOSE i \in bad : \A j \in bad : i <= j

\* C11: the read that hands the tokenizer a malformed byte, be it the first
\* read or a read of the accumulation loop, ends receive_response with an
\* InvalidData error; InvalidData is reported by no other read, and after it
\* the transport is not read again.
C11_MalformedFailsAtOnce ==
  /\ [][((pc \in {"first_read", "carry_on"}) /\ reader.pos < BadAt /\ BadAt <= reader'.pos)
          => (pc' = "failed" /\ error' = "InvalidData")]_vars
  /\ []((pc = "failed" /\ error = "InvalidData")
          => (BadAt > 0 /\ reader.pos - last_total < BadAt /\ BadAt <= reader.pos))
  /\ [][pc = "failed" => (pc' = "failed" /\ reader' = reader /\ reads' = reads)]_vars

C11_Witness ==
  /\ pc = "failed"
  /\ error = "InvalidData"
  /\ reads > 1
  /\ sample.head = HeadBadValue
  /\ reader.pos < Len(reader.data)


\* C12: no read is attempted on the transport before the whole request has
\* been accepted by it; a failed write ends the handshake with the write's
\* error, and then no read is ever attempted.
C12_NoReadBeforeRequestAccepted ==
  /\ []((pc = "call" \/ written < Len(write_buf))
          => (reads = 0 /\ reader.pos = 0 /\ pc \in {"call", "write_all", "failed"}))
  /\ [](reads > 0 => Take(writer, Len(write_buf)) = write_buf)
  /\ []((pc = "failed" /\ written < Len(write_buf)) => error \in {"Io", "WriteZero"})
  /\ [][(pc = "failed" /\ reads = 0) => (reads' = 0 /\ reader' = reader)]_vars

C12_Witness ==
  /\ entry = "handshake_and_wrap"
  /\ pc = "failed"
  /\ error = "WriteZero"
  /\ written > 0
  /\ written < Len(write_buf)
  /\ reads = 0


\* C13: when receive_response succeeds, the bytes it took from the transport
\* are exactly the response head followed by data_after_handshake: every byte
\* read past the head is in the outcome, none is dropped or repeated.
C13_TakenIsHeadThenLeftover ==
  pc = "returned" =>
    Take(reader.data, reader.pos) = HeadText(sample.head) \o outcome.data_after_handshake

C13_Witness ==
  /\ pc = "returned"
  /\ sample.head = Head407
  /\ reads > 1
  /\ outcome.data_after_handshake # <<>>
  /\ reader.pos < Len(reader.data)


\* C14: a write, flush or close on the PrependIoStream reaches the inner
\* stream as issued (the inner stream receives the written bytes, or the
\* flush, or the close, and nothing else), in the replaying and in the
\* pass-through state alike, and leaves the leftover buffer, its cursor and
\* the read side unchanged.
C14_WriteSideForwarded ==
  [][tunnel_writes' # tunnel_writes =>
       /\ stream' = stream
       /\ delivered' = delivered
       /\ reader' = reader
       /\ CASE last_op'.op = "write" ->
                   /\ last_op'.ret \in 1..Len(TunnelPayload)
                   /\ writer' = writer \o Take(TunnelPayload, last_op'.ret)
                   /\ inner_ctl' = inner_ctl
              [] last_op'.op = "flush" ->
                   /\ writer' = writer
                   /\ inner_ctl' = [flushes |-> inner_ctl.flushes + 1, closes |-> inner_ctl.closes]
              [] last_op'.op = "close" ->
                   /\ writer' = writer
                   /\ inner_ctl' = [flushes |-> inner_ctl.flushes, closes |-> inner_ctl.closes + 1]
              [] OTHER -> FALSE]_vars

C14_Witness ==
  /\ stream.variant = "Chain"
  /\ Pending # <<>>
  /\ Len(Pending) < Len(OrigLeftover)
  /\ last_op.op = "close"
  /\ inner_ctl.closes = 1


\* C15: the headers returned by the handshake hold, for every header name of
\* the response head, all the values the head gives under that name, in the
\* order of the head's lines (also when the name occurs on several lines).
C15_DuplicatesRetained ==
  pc = "returned" =>
    \A i \in 1..Len(HeadParts.headers) :
      LET Same(h) == h.name = HeadParts.headers[i].name
      IN  SelectSeq(outcome.response_parts.headers, Same) = SelectSeq(HeadParts.headers, Same)


\* C16 as stated: the request is assembled completely before the transport
\* gets its first byte, and send_request hands it to the transport in one
\* write call, also when the transport accepts fewer bytes than offered.
C16_SingleWriteCall ==
  /\ write_calls > 0 => write_buf = RequestTemplate(request)
  /\ pc = "returned" => write_calls = 1

\* C16 amended: the request is assembled completely before the transport
\* gets its first byte; it is then handed over with write_all: every write
\* call offers the part not yet accepted, a call that leaves a part
\* unaccepted is followed by another, and send_request returns only when the
\* transport has accepted the whole request (after one call exactly when the
\* first call accepts everything).
C16_AssembledThenWrittenOut ==
  /\ [](write_calls > 0 => write_buf = RequestTemplate(request))
  /\ [](writer = Take(write_buf, written))
  /\ [](pc = "returned" => (written = Len(write_buf) /\ write_calls >= 1))
  /\ [][(pc = "call" /\ written' = Len(write_buf')) => (pc' = "returned" /\ write_calls' = 1)]_vars
  /\ [][(written' > written /\ written' < Len(write_buf')) => pc' = "write_all"]_vars

C16_Witness ==
  /\ entry = "send_request"
  /\ pc = "returned"
  /\ write_calls > 1
  /\ writer = RequestTemplate(request)


\* number of bytes past an H-byte head that reads of B bytes each have taken
\* when the read completing the head returns
extra_read(H, B) == (B - (H % B)) % B

\* C17: when every read fills the read_buf_len-byte scratch buffer,
\* data_after_handshake is the first (B - (H mod B)) mod B bytes that follow
\* the H-byte head, the rest stays in the transport, and status, reason and
\* headers are those of the head.
C17_FullReadsLeftover ==
  (pc = "returned" /\ ~short_read) =>
    /\ outcome.data_after_handshake = Take(BytesAfterHead, extra_read(HeadLen, read_buf_len))
    /\ reader.pos = HeadLen + extra_read(HeadLen, read_buf_len)
    /\ outcome.response_parts = HeadParts

\* 'HTTP/1.1 200 OK\r\n\r\nhello' arriving in reads of 4 bytes each
FourByteChunks ==
  /\ sample = Sample(Head200, Hello, FullLen(Head200, Hello))
  /\ read_buf_len = 4
  /\ ~short_read

\* C18 as stated: that response read in 4-byte chunks gives status 200,
\* reason 'OK', no headers and the leftover bytes 'hell'.
C18_LeftoverHell ==
  (pc = "returned" /\ FourByteChunks) =>
    /\ outcome.response_parts = [status_code |-> 200, reason_phrase |-> <<"O", "K">>,
                                 headers |-> <<>>]
    /\ outcome.data_after_handshake = <<"h", "e", "l", "l">>

\* C18 amended: that response read in 4-byte chunks gives status 200, reason
\* 'OK', no headers and the leftover byte 'h': the head is 19 bytes long, the
\* fifth read completes it and takes one byte more; 'ello' stays in the
\* transport.
C18_LeftoverH ==
  (pc = "returned" /\ FourByteChunks) =>
    /\ outcome.response_parts = [status_code |-> 200, reason_phrase |-> <<"O", "K">>,
                                 headers |-> <<>>]
    /\ outcome.data_after_handshake = <<"h">>
    /\ reader.pos = 20
    /\ Drop(reader.data, reader.pos) = <<"e", "l", "l", "o">>

C18_Witness ==
  /\ pc = "returned"
  /\ FourByteChunks
  /\ last_total = 4
  /\ outcome.data_after_handshake = <<"h">>


\* all bytes the reads of receive_response have returned so far, in order
BytesRead == Take(reader.data, reader.pos)

\* C19: in the accumulation phase, after every read the accumulation buffer
\* is the concatenation, in order, of the bytes returned by all reads since
\* receive_response started (the first read included), and the verdict of
\* each iteration is the tokenizer's verdict on that whole buffer.
C19_AccumulatesEveryRead ==
  /\ []((pc = "carry_on" \/ reads > 1) => carry_on_buf = BytesRead)
  /\ [][(pc = "carry_on" /\ ~(pc' = "failed" /\ error' = "Io")) =>
          \E status \in {parse(BytesRead')} :
            CASE status.st = "Partial" -> pc' = "carry_on"
              [] status.st = "Error" -> pc' = "failed" /\ error' = "InvalidData"
              [] status.st = "Complete" ->
                   /\ pc' = "returned"
                   /\ outcome'.response_parts = parts_from_complete_response(status)]_vars

C19_Witness ==
  /\ pc = "carry_on"
  /\ reads > 1
  /\ last_total > 0
  /\ Len(carry_on_buf) > read_buf_len
  /\ carry_on_buf = BytesRead


\* the stream hands its reads to the inner stream
PassThrough ==
  \/ stream.variant = "Plain"
  \/ stream.variant = "Chain" /\ stream.done_first

\* C20: the leftover buffer is only ever consumed: pending_prepend_data starts
\* as the original leftover, is at all times a suffix of it, never gets
\* longer through any read, write, flush or close, and is empty once the
\* stream passes reads through.
C20_LeftoverOnlyShrinks ==
  /\ []((pc = "tunnel" /\ last_op = NoOp) => Pending = OrigLeftover)
  /\ [](stream.variant # "None" =>
          \E k \in 0..Len(OrigLeftover) : Pending = Drop(OrigLeftover, k))
  /\ [](PassThrough => Pending = <<>>)
  /\ [][stream.variant # "None" =>
          \E k \in 0..Len(Pending) : Pending' = Drop(Pending, k)]_vars

C20_Witness ==
  /\ stream.variant = "Chain"
  /\ ~stream.done_first
  /\ tunnel_writes > 0
  /\ last_op.op = "read"
  /\ last_op.ret > 0
  /\ Pending # <<>>
  /\ Len(Pending) < Len(OrigLeftover)


\* the PrependIoStream was constructed with an absent or an empty leftover
BuiltWithoutLeftover == stream.variant # "None" /\ OrigLeftover = <<>>

\* C21: a PrependIoStream constructed with an absent or empty leftover is in
\* the pass-through (Plain) state from the start: every read on it, the first
\* included, goes to the inner stream and returns what the inner stream
\* returns, and into_inner gives back an absent leftover.
C21_EmptyLeftoverIsPlain ==
  BuiltWithoutLeftover =>
    /\ stream.variant = "Plain"
    /\ last_op.op = "read" =>
         /\ last_op.inner
         /\ last_op.data = SubSeq(reader.data, reader.pos - last_op.ret + 1, reader.pos)
    /\ pc = "unwrapped" => (unwrapped.leftover = None /\ unwrapped.stream = reader)

C21_Witness ==
  /\ prepended = Some(<<>>)
  /\ pc = "unwrapped"
  /\ unwrapped.leftover = None
  /\ delivered = <<"1", "2">>


\* C22: a read on the PrependIoStream with a non-empty caller buffer returns
\* 0 only when the inner stream was read in that call and returned 0 (it has
\* no byte left); a read that finds the leftover exhausted reads the inner
\* stream in the same call and returns the inner stream's bytes.
C22_ZeroOnlyFromInner ==
  (last_op.op = "read" /\ last_op.req > 0) =>
    /\ last_op.ret = 0 => (last_op.inner /\ reader.pos = Len(reader.data))
    /\ last_op.pending_before = 0 =>
         /\ last_op.inner
         /\ last_op.ret = Len(last_op.data)
         /\ last_op.data = SubSeq(reader.data, reader.pos - last_op.ret + 1, reader.pos)
    /\ last_op.pending_before > 0 => last_op.ret > 0

C22_Witness ==
  /\ stream.variant = "Chain"
  /\ OrigLeftover # <<>>
  /\ last_op.op = "read"
  /\ last_op.req > 0
  /\ last_op.ret = 0
  /\ last_op.inner
  /\ delivered = OrigLeftover


\* the bytes returned by the latest read of receive_response
FinalRead == SubSeq(reader.data, reader.pos - last_total + 1, reader.pos)

\* C23: whenever receive_response succeeds, data_after_handshake is a suffix
\* of the bytes the final read returned and is strictly shorter than that
\* read, hence shorter than the scratch buffer; no byte of an earlier read
\* is in it.
C23_LeftoverWithinFinalRead ==
  pc = "returned" =>
    LET d == outcome.data_after_handshake
    IN  /\ Len(d) < last_total
        /\ last_total <= read_buf_len
        /\ d = Drop(FinalRead, last_total - Len(d))
        /\ reader.pos - Len(d) >= reader.pos - last_total + 1

C23_Witness ==
  /\ pc = "returned"
  /\ reads > 1
  /\ Len(outcome.data_after_handshake) >= 2
  /\ last_total = Len(outcome.data_after_handshake) + 1


\* C24: a well-formed response head with more header lines than the 16 slots
\* receive_response provides never yields a HandshakeOutcome: the read that
\* takes the first byte of the 17th header line, be it the first read or a
\* read of the accumulation loop, ends receive_response with InvalidData.
C24_TooManyHeadersFails ==
  /\ [](TooManyAt > 0 => (pc # "returned" /\ outcome = NoOutcome))
  /\ [][(TooManyAt > 0 /\ (pc \in {"first_read", "carry_on"})
            /\ reader.pos < TooManyAt /\ TooManyAt <= reader'.pos)
          => (pc' = "failed" /\ error' = "InvalidData")]_vars

C24_Witness ==
  /\ Len(sample.head.headers) = MaxHeaders + 1
  /\ pc = "failed"
  /\ error = "InvalidData"
  /\ reads = 1
  /\ reader.pos >= TooManyAt


============================================================================
